---- MODULE Spec2Model ----
(***************************************************************************)
(* CPC Scoreboard (frontend/js/app.js): the contest phase machine, the     *)
(* contest timer and the blind-hour reveal engine, as a state machine.     *)
(*                                                                         *)
(* One action is one run-to-completion piece of JavaScript: an event       *)
(* handler up to its first await, or the continuation of an async function *)
(* between two awaits.  A continuation that follows an already settled     *)
(* promise (a microtask) runs before any other handler, so it belongs to   *)
(* the action that settled the promise.  Rendering, sound, toasts and      *)
(* confetti change nothing the program reads back and are left out.        *)
(***************************************************************************)
EXTENDS Integers, Sequences, FiniteSets, TLC

\* ------------------------------------------------------------------------
\* Bounds of the model
\* ------------------------------------------------------------------------
\* longest blind-hour queue drawn for a reveal
MaxQueue == 2
\* most nextSubmission calls suspended in a sleep at the same time
MaxFrames == 2
\* most auto-play timers pending that autoTimer no longer refers to
MaxLeaked == 1
\* most standings polls awaiting their answer at the same time
MaxPolls == 1
\* how many times the wall clock advances by GrainMs
MaxClockSteps == 4
\* contestants in the data the ranking is checked on
MaxRanked == 3

\* ------------------------------------------------------------------------
\* Program constants
\* ------------------------------------------------------------------------
WA_PENALTY_MINUTES == 20

\* ------------------------------------------------------------------------
\* Contest data handed to the frontend (the JSON of /api/standings, /api/demo
\* or an imported file)
\* ------------------------------------------------------------------------
ProblemIds == {"P", "Q", "R", "S", "T"}

\* A problem cell.  JavaScript leaves a missing cell undefined and an accepted
\* cell without a failed field; both read as false in every test the code does.
NoCell == [solved |-> FALSE, failed |-> FALSE, time |-> 0]
SolvedAt(t) == [solved |-> TRUE, failed |-> FALSE, time |-> t]
FailedCell == [solved |-> FALSE, failed |-> TRUE, time |-> 0]

CellsSolved(ps) == [p \in ProblemIds |-> IF p \in ps THEN SolvedAt(50) ELSE NoCell]

\* Two contestants one place apart: an accepted run lets B pass A, and a later
\* accepted run lets A pass B again.  A has problem P solved at the freeze.
BaselineSwap ==
    << [handle |-> "A", freezeRank |-> 1, freezeSolvedCount |-> 3, freezePenalty |-> 300,
        problemResultsAtFreeze |-> CellsSolved({"P", "R", "S"})],
       [handle |-> "B", freezeRank |-> 2, freezeSolvedCount |-> 3, freezePenalty |-> 400,
        problemResultsAtFreeze |-> CellsSolved({"R", "S", "T"})] >>

\* Two contestants tied on (solved, penalty); the data lists them in an order
\* other than their frozen ranks (the tie is broken by the data source).
BaselineTie ==
    << [handle |-> "A", freezeRank |-> 2, freezeSolvedCount |-> 1, freezePenalty |-> 100,
        problemResultsAtFreeze |-> CellsSolved({"R"})],
       [handle |-> "B", freezeRank |-> 1, freezeSolvedCount |-> 1, freezePenalty |-> 100,
        problemResultsAtFreeze |-> CellsSolved({"R"})] >>

Baselines == {BaselineSwap, BaselineTie}

Sub(h, p, v, t, wa) ==
    [handle |-> h, problemIndex |-> p, verdict |-> v, relativeTimeSec |-> t,
     wrongAttemptsBefore |-> wa]

\* The submissions a blind-hour queue is drawn from.  "Z" is a handle that is
\* in no contestant list.  Three of them share relativeTimeSec = 754.
SubPool ==
    { Sub("B", "Q", "OK", 754, 2),
      Sub("B", "Q", "WRONG_ANSWER", 754, 0),
      Sub("A", "P", "OK", 754, 0),
      Sub("A", "P", "WRONG_ANSWER", 760, 0),
      Sub("Z", "P", "OK", 900, 0),
      Sub("A", "Q", "OK", 7000, 1) }

TimeOrdered(q) ==
    \A i \in 1..Len(q) - 1 : q[i].relativeTimeSec <= q[i + 1].relativeTimeSec

SeqsUpTo(S, n) == UNION {[1..k -> S] : k \in 0..n}

\* Blind-hour queues: ascending relativeTimeSec, as the data source delivers them.
Queues == {q \in SeqsUpTo(SubPool, MaxQueue) : TimeOrdered(q)}

Datasets == [contestants : Baselines, blindHourSubmissions : Queues]

\* The value of the global data: null until contest data is stored in it.
\* lacks names the property a loaded object does not have ("none": it has both).
NoData ==
    [loaded |-> FALSE, contestants |-> << >>, blindHourSubmissions |-> << >>,
     lacks |-> "none"]
Loaded(d) ==
    [loaded |-> TRUE, contestants |-> d.contestants,
     blindHourSubmissions |-> d.blindHourSubmissions, lacks |-> "none"]
\* A parsed file without the property k
FileLacking(k) ==
    [loaded |-> TRUE,
     contestants |-> IF k = "contestants" THEN << >> ELSE BaselineSwap,
     blindHourSubmissions |-> << >>, lacks |-> k]
MalformedFiles == {FileLacking(k) : k \in {"contestants", "blindHourSubmissions"}}

\* ------------------------------------------------------------------------
\* State
\* ------------------------------------------------------------------------
VARIABLES
    currentPhase,      \* 'setup' | 'live' | 'frozen' | 'ended' | 'reveal'
    data,              \* the loaded contest data, NoData for null
    state,             \* reveal copies of the contestants, in data order
    queue,             \* submissions not yet revealed
    revealed,
    acceptedCount,
    rankChangeCount,
    playing,
    processing,
    mvp,
    lastMinuteHero,
    submissionCounts,
    mostPersistent,
    revealFinished,
    autoTimerPending,  \* the timeout autoTimer refers to has not fired or been cleared
    leakedTimers,      \* pending autoTick timeouts autoTimer no longer refers to
    frames,            \* nextSubmission calls suspended in a sleep
    disabled,          \* the disabled flag of btn-start, btn-next, btn-auto, btn-all
    nextLocked,        \* btn-next has pointer-events: none (lockUI)
    awardsShown,       \* the awards overlay has class 'show'
    contestDurationSec,
    freezeAtSec,
    contestStartTimestamp,
    timerInterval,     \* the updateTimerDisplay interval is set
    timeScale,
    isFrozen,
    livePoller,        \* the pollLiveStandings interval is set
    loading,           \* the loading overlay is displayed
    enteredFrom,       \* history: the phase each phase was last entered from
    clockEvents,       \* history: how often updateTimerDisplay has frozen, ended
    now,               \* Date.now()
    startInFlight,     \* 'live' | 'sim': a start call awaits the backend, else 'none'
    pollsInFlight,     \* pollLiveStandings calls awaiting API.getStandings
    freezeInFlight,    \* doFreeze awaits API.freezeContest
    revealInFlight,    \* doStartReveal awaits the backend
    resetInFlight,     \* doReset awaits API.resetContest
    demoInFlight,      \* loadDemoMode awaits API.getDemoData
    resumeInFlight,    \* the page-load phase check awaits the backend
    backendActive,     \* the backend holds a session: its phase is not 'setup'
    afterReset         \* history: doReset has reloaded the page and no start or
                       \* load command has been given since

revealVars ==
    << data, state, queue, revealed, acceptedCount, rankChangeCount, playing, processing,
       mvp, lastMinuteHero, submissionCounts, mostPersistent, revealFinished,
       autoTimerPending, leakedTimers, frames, disabled, nextLocked, awardsShown >>

\* what the phase functions read and write besides the reveal engine
sessionVars ==
    << currentPhase, contestDurationSec, freezeAtSec, contestStartTimestamp, timerInterval,
       timeScale, isFrozen, livePoller, loading, enteredFrom, clockEvents >>
flightVars ==
    << startInFlight, pollsInFlight, freezeInFlight, revealInFlight, resetInFlight,
       demoInFlight, resumeInFlight >>
\* everything the reveal engine's own operations leave alone
\* the backend's session and the reset history
envVars == << backendActive, afterReset >>
pageVars == << sessionVars, flightVars, now, envVars >>

vars == << revealVars, pageVars >>

NoMvp == [handle |-> "", delta |-> 0]
NoHero == [handle |-> "", problemIndex |-> "", time |-> 0]
NoPersistent == [handle |-> "", problemIndex |-> "", count |-> 0]
\* submissionCounts is keyed by handle + '|' + problemIndex; the key is kept as
\* the pair (no handle of the data holds a '|'), a missing key reads as 0.
NoCounts == [k \in {} |-> 0]

Buttons == {"start", "next", "auto", "all"}

Phases == {"setup", "live", "frozen", "ended", "reveal"}
NeverEntered == [p \in Phases |-> "none"]
NoClockEvents == [freeze |-> 0, end |-> 0]

Init ==
    /\ currentPhase = "setup"
    /\ contestDurationSec = 0
    /\ freezeAtSec = 0
    /\ contestStartTimestamp = 0
    /\ timerInterval = FALSE
    /\ timeScale = 1
    /\ isFrozen = FALSE
    /\ livePoller = FALSE
    /\ loading = FALSE
    /\ enteredFrom = NeverEntered
    /\ clockEvents = NoClockEvents
    /\ now = 0
    /\ startInFlight = "none"
    /\ pollsInFlight = 0
    /\ freezeInFlight = FALSE
    /\ revealInFlight = FALSE
    /\ resetInFlight = FALSE
    /\ demoInFlight = FALSE
    /\ resumeInFlight = TRUE
    /\ backendActive \in BOOLEAN
    /\ afterReset = FALSE
    /\ data = NoData
    /\ state = << >>
    /\ queue = << >>
    /\ revealed = 0
    /\ acceptedCount = 0
    /\ rankChangeCount = 0
    /\ playing = FALSE
    /\ processing = FALSE
    /\ mvp = NoMvp
    /\ lastMinuteHero = NoHero
    /\ submissionCounts = NoCounts
    /\ mostPersistent = NoPersistent
    /\ revealFinished = FALSE
    /\ autoTimerPending = FALSE
    /\ leakedTimers = 0
    /\ frames = << >>
    /\ disabled = [b \in Buttons |-> FALSE]
    /\ nextLocked = FALSE
    /\ awardsShown = FALSE

\* ------------------------------------------------------------------------
\* Contest timer and phases
\* ------------------------------------------------------------------------
\* The wall clock advances in steps of one minute.
GrainMs == 60 * 1000

\* The arguments durationSec, freezeAtSecond, elapsedSec and scale of an
\* enterLivePhase call.
\* startLive and the page-load check: freezeAtSecond = duration - freezeMin * 60
LiveTiming(total, freezeMin, elapsed) ==
    [durationSec |-> total, freezeAtSecond |-> total - freezeMin * 60,
     elapsedSec |-> elapsed, scale |-> 1]
\* startSimulation: the last hour is blind and the contest is played in 240 s
SimTiming(total, elapsed) ==
    [durationSec |-> total, freezeAtSecond |-> total - 60 * 60,
     elapsedSec |-> elapsed, scale |-> total \div 240]

\* startLive: a three-minute contest frozen for its last minute, joined at its
\* start, at the freeze, or once Codeforces reports it FINISHED; and the same
\* contest with four freeze minutes entered in the setup form
StartLiveTimings ==
    {LiveTiming(180, 1, e) : e \in {0, 120, 180}} \cup {LiveTiming(180, 4, 0)}
\* startSimulation: a two-hour contest at scale 30, joined at its start
StartSimulationTimings == {SimTiming(7200, 0)}
\* the page-load check with the backend in phase 'live': durationSeconds
\* present or missing (|| 0), relativeTimeSeconds || 0
ResumeLiveTimings == {LiveTiming(180, 1, 0), LiveTiming(180, 1, 120), LiveTiming(0, 1, 0)}
\* the page-load check with the backend in phase 'frozen': relativeTimeSeconds
\* || durationSec
ResumeFrozenTimings == {LiveTiming(180, 1, 120), LiveTiming(180, 1, 180)}

\* The globals the phase functions work on, as one value
Session ==
    [currentPhase |-> currentPhase, contestDurationSec |-> contestDurationSec,
     freezeAtSec |-> freezeAtSec, contestStartTimestamp |-> contestStartTimestamp,
     timerInterval |-> timerInterval, timeScale |-> timeScale, isFrozen |-> isFrozen,
     livePoller |-> livePoller, loading |-> loading, enteredFrom |-> enteredFrom,
     clockEvents |-> clockEvents]

SetSession(s) ==
    /\ currentPhase' = s.currentPhase
    /\ contestDurationSec' = s.contestDurationSec
    /\ freezeAtSec' = s.freezeAtSec
    /\ contestStartTimestamp' = s.contestStartTimestamp
    /\ timerInterval' = s.timerInterval
    /\ timeScale' = s.timeScale
    /\ isFrozen' = s.isFrozen
    /\ livePoller' = s.livePoller
    /\ loading' = s.loading
    /\ enteredFrom' = s.enteredFrom
    /\ clockEvents' = s.clockEvents

\* currentPhase = p, the phase it replaces being recorded
SetPhase(s, p) ==
    [s EXCEPT !.currentPhase = p, !.enteredFrom[p] = s.currentPhase]

\* stopContestTimer leaving the interval set (a fault to be caught)
StopContestTimerKeepsInterval(s) == s

\* stopContestTimer
StopContestTimer(s) == [s EXCEPT !.timerInterval = FALSE]

\* enterFrozenPhase without its double-entry guard (a fault to be caught)
EnterFrozenPhaseUnguarded(s) ==
    [SetPhase(s, "frozen") EXCEPT
         !.isFrozen = TRUE,
         !.livePoller = IF s.livePoller /\ s.timeScale <= 1 THEN FALSE ELSE @]

\* enterFrozenPhase
EnterFrozenPhase(s) ==
    IF s.currentPhase = "frozen" THEN s
    ELSE [SetPhase(s, "frozen") EXCEPT
              !.isFrozen = TRUE,
              !.livePoller = IF s.livePoller /\ s.timeScale <= 1 THEN FALSE ELSE @]

\* enterContestEndedPhase without its stopContestTimer (a fault to be caught)
EnterContestEndedPhaseTimerRuns(s) == SetPhase(s, "ended")

\* enterContestEndedPhase
EnterContestEndedPhase(s) == StopContestTimer(SetPhase(s, "ended"))

\* Math.floor((Date.now() - contestStartTimestamp) * timeScale / 1000)
ElapsedSec(s, t) == ((t - s.contestStartTimestamp) * s.timeScale) \div 1000

\* Math.max(0, x)
Max0(x) == IF x > 0 THEN x ELSE 0

\* updateTimerDisplay's remaining, without the clamp (a fault to be caught)
RemainingUnclamped(s, t) == s.contestDurationSec - ElapsedSec(s, t)

\* updateTimerDisplay: remaining and remainingUntilFreeze at time t
Remaining(s, t) == Max0(s.contestDurationSec - ElapsedSec(s, t))
RemainingUntilFreeze(s, t) == Max0(s.freezeAtSec - ElapsedSec(s, t))

\* formatTime(seconds), as hours, minutes and seconds before padding
FormatTime(seconds) ==
    LET sec == IF seconds < 0 THEN 0 ELSE seconds
    IN  << sec \div 3600, (sec % 3600) \div 60, sec % 60 >>

\* updateTimerDisplay at time t
UpdateTimerDisplay(s, t) ==
    LET elapsedSec == ElapsedSec(s, t)
        remaining == Remaining(s, t)
        s1 == IF ~s.isFrozen /\ elapsedSec >= s.freezeAtSec /\ s.currentPhase = "live"
              THEN EnterFrozenPhase([s EXCEPT !.isFrozen = TRUE,
                                              !.clockEvents.freeze = @ + 1])
              ELSE s
    IN  IF remaining <= 0 /\ s1.currentPhase \in {"frozen", "live"}
        THEN EnterContestEndedPhase(
                 StopContestTimer([s1 EXCEPT !.clockEvents.end = @ + 1]))
        ELSE s1

\* startContestTimer(tm.durationSec, tm.freezeAtSecond, tm.elapsedSec, tm.scale)
\* at time t.  elapsedSec * 1000 / scale is a whole number for every timing
\* drawn here.
StartContestTimer(s, tm, t) ==
    LET s1 == [s EXCEPT !.contestDurationSec = tm.durationSec,
                        !.freezeAtSec = tm.freezeAtSecond,
                        !.contestStartTimestamp = t - ((tm.elapsedSec * 1000) \div tm.scale),
                        !.isFrozen = FALSE,
                        !.timeScale = tm.scale]
    IN  [UpdateTimerDisplay(s1, t) EXCEPT !.timerInterval = TRUE]

\* enterLivePhase(standingsData, pollInterval, tm...) at time t
EnterLivePhase(s, tm, t) ==
    LET s0 == [SetPhase(s, "live") EXCEPT !.loading = FALSE]
        s1 == StartContestTimer(s0, tm, t)
    IN  IF tm.durationSec > 0 /\ tm.elapsedSec >= tm.durationSec
        THEN EnterContestEndedPhase(StopContestTimer(s1))
        ELSE IF tm.durationSec > 0 /\ tm.elapsedSec >= tm.freezeAtSecond
        THEN EnterFrozenPhase([s1 EXCEPT !.isFrozen = TRUE])
        ELSE [(IF tm.durationSec > 0 THEN s1 ELSE s0) EXCEPT !.livePoller = TRUE]

\* enterRevealPhase, the part before resetReveal
EnterRevealSession(s) ==
    [StopContestTimer(SetPhase(s, "reveal")) EXCEPT !.loading = FALSE]

\* ------------------------------------------------------------------------
\* Reveal engine: pure helpers
\* ------------------------------------------------------------------------
RemoveAt(s, k) == SubSeq(s, 1, k - 1) \o SubSeq(s, k + 1, Len(s))

\* state.find(x => x.handle === h): the index of the first match, 0 for undefined
FindIdx(st, h) ==
    IF \E i \in DOMAIN st : st[i].handle = h
    THEN CHOOSE i \in DOMAIN st :
            st[i].handle = h /\ \A j \in DOMAIN st : st[j].handle = h => i <= j
    ELSE 0

\* data.contestants.map(c => ({...c, rank, solved, penalty, probs, delta}))
StateFromData(d) ==
    [i \in DOMAIN d.contestants |->
        LET c == d.contestants[i] IN
        [handle |-> c.handle,
         freezeRank |-> c.freezeRank,
         freezeSolvedCount |-> c.freezeSolvedCount,
         freezePenalty |-> c.freezePenalty,
         rank |-> c.freezeRank,
         solved |-> c.freezeSolvedCount,
         penalty |-> c.freezePenalty,
         probs |-> c.problemResultsAtFreeze,
         delta |-> 0]]

\* Mutant of PenaltyDelta: the wrong-attempt minutes are added once, not once
\* per wrong attempt
PenaltyDeltaFlatWrongAttempts(sub) ==
    (sub.relativeTimeSec \div 60)
    + (IF sub.wrongAttemptsBefore > 0 THEN WA_PENALTY_MINUTES ELSE 0)

\* Math.floor(sub.relativeTimeSec / 60) + WA_PENALTY_MINUTES * (sub.wrongAttemptsBefore || 0)
PenaltyDelta(sub) ==
    (sub.relativeTimeSec \div 60) + WA_PENALTY_MINUTES * sub.wrongAttemptsBefore

\* The accepted branch's writes to the contestant: cell, solved++, penalty +=
ApplyAccepted(st, i, sub) ==
    [st EXCEPT ![i].probs[sub.problemIndex] = SolvedAt(sub.relativeTimeSec),
               ![i].solved = @ + 1,
               ![i].penalty = @ + PenaltyDelta(sub)]

\* Mutant of ApplyRejected: the cell is overwritten without the solved test
ApplyRejectedUnguarded(st, i, sub) ==
    [st EXCEPT ![i].probs[sub.problemIndex] = FailedCell]

\* Mutant of ApplyRejected: a rejected run also costs WA_PENALTY_MINUTES
ApplyRejectedAddsPenalty(st, i, sub) ==
    IF st[i].probs[sub.problemIndex].solved
    THEN st
    ELSE [st EXCEPT ![i].probs[sub.problemIndex] = FailedCell,
                    ![i].penalty = @ + WA_PENALTY_MINUTES]

\* The rejected branch's write: failed, unless the cell is solved
ApplyRejected(st, i, sub) ==
    IF st[i].probs[sub.problemIndex].solved
    THEN st
    ELSE [st EXCEPT ![i].probs[sub.problemIndex] = FailedCell]

\* The comparator of recalcRanks: a sorts before b
SortsBefore(a, b) ==
    IF b.solved # a.solved THEN b.solved - a.solved < 0 ELSE a.penalty - b.penalty < 0
SortsEqual(a, b) == ~SortsBefore(a, b) /\ ~SortsBefore(b, a)

\* recalcRanks with ties ranked against the order of state (a fault to be caught)
RecalcRanksTiesReversed(st) ==
    [i \in DOMAIN st |->
        LET r == 1 + Cardinality({j \in DOMAIN st :
                        \/ SortsBefore(st[j], st[i])
                        \/ SortsEqual(st[j], st[i]) /\ j > i})
        IN [st[i] EXCEPT !.rank = r, !.delta = st[i].freezeRank - r]]

\* recalcRanks taking the new rank as the baseline (a fault to be caught)
RecalcRanksRebaselines(st) ==
    [i \in DOMAIN st |->
        LET r == 1 + Cardinality({j \in DOMAIN st :
                        \/ SortsBefore(st[j], st[i])
                        \/ SortsEqual(st[j], st[i]) /\ j < i})
        IN [st[i] EXCEPT !.rank = r, !.delta = st[i].freezeRank - r, !.freezeRank = r]]

\* recalcRanks: Array.prototype.sort is stable, so a contestant's place in the
\* sorted copy is 1 + the number of contestants that sort before it or compare
\* equal and stand earlier in state.
RecalcRanks(st) ==
    [i \in DOMAIN st |->
        LET r == 1 + Cardinality({j \in DOMAIN st :
                        \/ SortsBefore(st[j], st[i])
                        \/ SortsEqual(st[j], st[i]) /\ j < i})
        IN [st[i] EXCEPT !.rank = r, !.delta = st[i].freezeRank - r]]

CountOf(sc, k) == IF k \in DOMAIN sc THEN sc[k] ELSE 0
Bump(sc, k) ==
    [x \in DOMAIN sc \cup {k} |-> IF x = k THEN CountOf(sc, k) + 1 ELSE sc[x]]
SubKey(sub) == << sub.handle, sub.problemIndex >>

\* Mutant of Persist: a pair that only equals the count replaces the candidate
PersistLatestOnTie(mp, sc, sub) ==
    IF CountOf(sc, SubKey(sub)) >= mp.count
    THEN [handle |-> sub.handle, problemIndex |-> sub.problemIndex,
          count |-> CountOf(sc, SubKey(sub))]
    ELSE mp

\* The persistence bookkeeping both modes do for a submission of a known handle
Persist(mp, sc, sub) ==
    IF CountOf(sc, SubKey(sub)) > mp.count
    THEN [handle |-> sub.handle, problemIndex |-> sub.problemIndex,
          count |-> CountOf(sc, SubKey(sub))]
    ELSE mp

HeroOf(sub) ==
    [handle |-> sub.handle, problemIndex |-> sub.problemIndex, time |-> sub.relativeTimeSec]

\* ------------------------------------------------------------------------
\* Reveal engine: the values one reveal works on, as a record
\* ------------------------------------------------------------------------
Engine ==
    [state |-> state, queue |-> queue, revealed |-> revealed,
     acceptedCount |-> acceptedCount, rankChangeCount |-> rankChangeCount,
     mvp |-> mvp, lastMinuteHero |-> lastMinuteHero,
     submissionCounts |-> submissionCounts, mostPersistent |-> mostPersistent]

SetEngine(e) ==
    /\ state' = e.state
    /\ queue' = e.queue
    /\ revealed' = e.revealed
    /\ acceptedCount' = e.acceptedCount
    /\ rankChangeCount' = e.rankChangeCount
    /\ mvp' = e.mvp
    /\ lastMinuteHero' = e.lastMinuteHero
    /\ submissionCounts' = e.submissionCounts
    /\ mostPersistent' = e.mostPersistent

\* What resetReveal assigns from the loaded data
ResetEngine(d) ==
    [state |-> StateFromData(d), queue |-> d.blindHourSubmissions, revealed |-> 0,
     acceptedCount |-> 0, rankChangeCount |-> 0, mvp |-> NoMvp,
     lastMinuteHero |-> NoHero, submissionCounts |-> NoCounts,
     mostPersistent |-> NoPersistent]

\* Mutant of BatchOne: the submission is counted before the contestant is
\* looked up
BatchOneCountsUnknown(e, sub) ==
    LET ci == FindIdx(e.state, sub.handle)
        sc == Bump(e.submissionCounts, SubKey(sub))
        e1 == [e EXCEPT !.revealed = @ + 1,
                        !.submissionCounts = sc,
                        !.mostPersistent = Persist(@, sc, sub)]
    IN  IF ci = 0 THEN e1
        ELSE IF sub.verdict = "OK"
             THEN [e1 EXCEPT !.state = ApplyAccepted(@, ci, sub),
                             !.acceptedCount = @ + 1,
                             !.lastMinuteHero =
                                 IF sub.relativeTimeSec > @.time THEN HeroOf(sub) ELSE @]
             ELSE e1

\* One iteration of revealAll's while loop, the submission already shifted off
BatchOne(e, sub) ==
    LET ci == FindIdx(e.state, sub.handle)
        e1 == [e EXCEPT !.revealed = @ + 1]
    IN  IF ci = 0 THEN e1
        ELSE LET sc == Bump(e.submissionCounts, SubKey(sub))
                 e2 == [e1 EXCEPT !.submissionCounts = sc,
                                  !.mostPersistent = Persist(@, sc, sub)]
             IN  IF sub.verdict = "OK"
                 THEN [e2 EXCEPT !.state = ApplyAccepted(@, ci, sub),
                                 !.acceptedCount = @ + 1,
                                 !.lastMinuteHero =
                                     IF sub.relativeTimeSec > @.time THEN HeroOf(sub) ELSE @]
                 ELSE e2

RECURSIVE BatchLoop(_)
BatchLoop(e) ==
    IF e.queue = << >> THEN e
    ELSE BatchLoop(BatchOne([e EXCEPT !.queue = Tail(@)], Head(e.queue)))

\* (oldRanks[c.handle] || c.rank) - c.rank
BatchDelta(st, old, i) == (IF old[i] # 0 THEN old[i] ELSE st[i].rank) - st[i].rank

\* state.forEach(c => { ...; if (delta > mvp.delta) mvp = { handle, delta } })
RECURSIVE MvpScan(_, _, _, _)
MvpScan(st, old, i, m) ==
    IF i > Len(st) THEN m
    ELSE MvpScan(st, old, i + 1,
                 IF BatchDelta(st, old, i) > m.delta
                 THEN [handle |-> st[i].handle, delta |-> BatchDelta(st, old, i)]
                 ELSE m)

\* revealAll's try block up to buildRows, on the values e
RevealAllOn(e) ==
    LET old == [i \in DOMAIN e.state |-> e.state[i].rank]
        e1 == BatchLoop(e)
        st == RecalcRanks(e1.state)
    IN  [e1 EXCEPT !.state = st,
                   !.rankChangeCount =
                       @ + Cardinality({i \in DOMAIN st : BatchDelta(st, old, i) # 0}),
                   !.mvp = MvpScan(st, old, 1, @)]

\* ------------------------------------------------------------------------
\* Reveal engine: operations
\* ------------------------------------------------------------------------
engineVars ==
    << state, queue, revealed, acceptedCount, rankChangeCount, mvp, lastMinuteHero,
       submissionCounts, mostPersistent >>
timerVars == << autoTimerPending, leakedTimers >>

\* A nextSubmission call suspended in a sleep.  sub and ci are its locals sub and
\* c (c as an index into the state array c was found in); stale says that
\* resetReveal has since replaced that array, so c is an object no longer in
\* state; auto says that an autoTick awaits the call; events lists the events
\* the call has emitted so far (each a sound with its toast), the first being
\* the pending event emitted before the first sleep.
Frame(sub, ci, byAuto) ==
    [sub |-> sub, ci |-> ci, stale |-> FALSE, pc |-> "pending", auto |-> byAuto,
     events |-> << "pending" >>]

\* Mutant of VerdictEvent: every verdict is announced as accepted
VerdictEventAlwaysAccepted(sub) == "accepted"

\* The event of the verdict branch: snd('accepted') with the Accepted toast,
\* or snd('rejected') with the Rejected toast
VerdictEvent(sub) == IF sub.verdict = "OK" THEN "accepted" ELSE "rejected"

\* stopAuto, lk being the count of timers autoTimer does not refer to
StopAuto(lk) ==
    /\ playing' = FALSE
    /\ autoTimerPending' = FALSE
    /\ leakedTimers' = lk

\* autoTimer = setTimeout(autoTick, ...), tp and lk the timers before it
Schedule(tp, lk) ==
    /\ tp => lk < MaxLeaked
    /\ autoTimerPending' = TRUE
    /\ leakedTimers' = IF tp THEN lk + 1 ELSE lk

\* finishReveal
FinishReveal ==
    /\ revealFinished' = TRUE
    /\ disabled' = [disabled EXCEPT !["auto"] = TRUE, !["next"] = FALSE]

\* showAwards: the conditions under which each badge is built.  A handle is
\* truthy when it is not the empty string.
HillClimberBadge == mvp.handle # "" /\ mvp.delta > 0
\* the persistence badge without the count test (a fault to be caught)
NotGiveUpBadgeAnyCount == mostPersistent.handle # ""
NotGiveUpBadge == mostPersistent.handle # "" /\ mostPersistent.count > 1
LastMinuteHeroBadge == lastMinuteHero.handle # ""

\* resetReveal with d the value of data
ResetRevealOn(d) ==
    /\ StopAuto(leakedTimers)
    /\ processing' = FALSE
    /\ UNCHANGED nextLocked
    /\ IF ~d.loaded \/ d.lacks = "contestants"
       THEN \* return at !data, or data.contestants.map throws
            UNCHANGED << engineVars, revealFinished, frames, disabled, awardsShown >>
       ELSE IF d.lacks = "blindHourSubmissions"
       THEN \* state is replaced, then [...data.blindHourSubmissions] throws
            /\ state' = StateFromData(d)
            /\ frames' = [k \in DOMAIN frames |-> [frames[k] EXCEPT !.stale = TRUE]]
            /\ UNCHANGED << queue, revealed, acceptedCount, rankChangeCount, mvp,
                            lastMinuteHero, submissionCounts, mostPersistent,
                            revealFinished, disabled, awardsShown >>
       ELSE /\ SetEngine(ResetEngine(d))
            /\ revealFinished' = FALSE
            /\ awardsShown' = FALSE
            /\ frames' = [k \in DOMAIN frames |-> [frames[k] EXCEPT !.stale = TRUE]]
            /\ disabled' = [b \in Buttons |-> b # "start"]

\* enterRevealPhase(revealData)
EnterRevealPhase(d) ==
    /\ SetSession(EnterRevealSession(Session))
    /\ data' = Loaded(d)
    /\ ResetRevealOn(Loaded(d))

\* nextSubmission returns before its first sleep
CallReturnsAtOnce ==
    \/ processing
    \/ revealFinished
    \/ queue = << >>
    \/ FindIdx(state, Head(queue).handle) = 0

\* nextSubmission from its call to its first sleep (or to its return)
NextSubmissionCall(byAuto) ==
    IF processing
    THEN UNCHANGED << engineVars, processing, revealFinished, frames, disabled, nextLocked,
                      awardsShown >>
    ELSE IF revealFinished
    THEN /\ awardsShown' = TRUE
         /\ UNCHANGED << engineVars, processing, revealFinished, frames, disabled,
                         nextLocked >>
    ELSE IF queue = << >>
    THEN /\ FinishReveal
         /\ UNCHANGED << engineVars, processing, frames, nextLocked, awardsShown >>
    ELSE LET sub == Head(queue)
             ci == FindIdx(state, sub.handle)
             sc == Bump(submissionCounts, SubKey(sub))
         IN  /\ queue' = Tail(queue)
             /\ revealed' = revealed + 1
             /\ UNCHANGED << state, acceptedCount, rankChangeCount, mvp, lastMinuteHero,
                             revealFinished, disabled, awardsShown >>
             /\ IF ci = 0
                THEN /\ processing' = FALSE
                     /\ nextLocked' = FALSE
                     /\ UNCHANGED << submissionCounts, mostPersistent, frames >>
                ELSE /\ processing' = TRUE
                     /\ nextLocked' = TRUE
                     /\ submissionCounts' = sc
                     /\ mostPersistent' = Persist(mostPersistent, sc, sub)
                     /\ frames' = Append(frames, Frame(sub, ci, byAuto))

\* Mutant of AutoTickResume: the continuation never sets the next timer
AutoTickResumeNeverSchedules(f) == UNCHANGED timerVars

\* The continuation of the autoTick that awaited frame f, when f's call returns
AutoTickResume(f) ==
    IF f.auto /\ playing
    THEN Schedule(autoTimerPending, leakedTimers)
    ELSE UNCHANGED timerVars

\* nextSubmission's last lines: processing = false, lockUI(false), and the call
\* returns
FrameReturns(k) ==
    /\ processing' = FALSE
    /\ nextLocked' = FALSE
    /\ frames' = RemoveAt(frames, k)
    /\ AutoTickResume(frames[k])

\* The click on btn-start
StartRevealAnimation ==
    /\ currentPhase = "reveal"
    /\ ~disabled["start"]
    /\ disabled' = [b \in Buttons |-> b = "start"]
    /\ UNCHANGED << pageVars, data, engineVars, playing, processing, revealFinished,
                    timerVars, frames, nextLocked, awardsShown >>

\* The click on btn-next
NextSubmission ==
    /\ currentPhase = "reveal"
    /\ ~disabled["next"]
    /\ ~nextLocked
    /\ ~CallReturnsAtOnce => Len(frames) < MaxFrames
    /\ NextSubmissionCall(FALSE)
    /\ UNCHANGED << pageVars, data, playing, timerVars >>

\* nextSubmission after sleep(PENDING_MS): the verdict is applied
StepVerdict(k) ==
    LET f == frames[k] IN
    /\ f.pc = "pending"
    /\ IF f.sub.verdict = "OK"
       THEN /\ acceptedCount' = acceptedCount + 1
            /\ state' = IF f.stale THEN state ELSE ApplyAccepted(state, f.ci, f.sub)
            /\ lastMinuteHero' = HeroOf(f.sub)
            /\ frames' = [frames EXCEPT ![k].pc = "accepted",
                                        ![k].events = Append(@, VerdictEvent(f.sub))]
       ELSE /\ state' = IF f.stale THEN state ELSE ApplyRejected(state, f.ci, f.sub)
            /\ frames' = [frames EXCEPT ![k].pc = "rejected",
                                        ![k].events = Append(@, VerdictEvent(f.sub))]
            /\ UNCHANGED << acceptedCount, lastMinuteHero >>
    /\ UNCHANGED << pageVars, data, queue, revealed, rankChangeCount, mvp,
                    submissionCounts, mostPersistent, playing, processing, revealFinished,
                    timerVars, disabled, nextLocked, awardsShown >>

\* c.rank after recalcRanks as the frame reads it: a stale c is not in state
\* and keeps the rank it had
RankSeenBy(f, before, after) == IF f.stale THEN before ELSE after[f.ci].rank

\* nextSubmission after sleep(VERDICT_MS): ranks are recomputed; a climb is
\* counted and animated, otherwise the call returns
StepRank(k) ==
    LET f == frames[k]
        oldRank == IF f.stale THEN 0 ELSE state[f.ci].rank
        st == RecalcRanks(state)
        climb == oldRank - RankSeenBy(f, oldRank, st)
    IN  /\ f.pc = "accepted"
        /\ state' = st
        /\ IF climb > 0
           THEN /\ rankChangeCount' = rankChangeCount + 1
                /\ mvp' = IF st[f.ci].delta > mvp.delta
                          THEN [handle |-> st[f.ci].handle, delta |-> st[f.ci].delta]
                          ELSE mvp
                /\ frames' = [frames EXCEPT ![k].pc = "climbing",
                                            ![k].events = Append(@, "rank-change")]
                /\ UNCHANGED << processing, nextLocked, timerVars >>
           ELSE /\ FrameReturns(k)
                /\ UNCHANGED << rankChangeCount, mvp >>
        /\ UNCHANGED << pageVars, data, queue, revealed, acceptedCount, lastMinuteHero,
                        submissionCounts, mostPersistent, playing, revealFinished,
                        disabled, awardsShown >>

\* nextSubmission after the climb animation's sleeps, or after the rejected
\* branch's sleep(800): the call returns
StepFinish(k) ==
    /\ frames[k].pc \in {"climbing", "rejected"}
    /\ FrameReturns(k)
    /\ UNCHANGED << pageVars, data, engineVars, playing, revealFinished, disabled,
                    awardsShown >>

\* Mutant of AutoTick: the test of playing is missing
AutoTickUncancellable(pl, tp, lk) ==
    IF queue = << >>
    THEN /\ StopAuto(lk)
         /\ FinishReveal
         /\ UNCHANGED << engineVars, processing, frames, nextLocked, awardsShown >>
    ELSE /\ playing' = pl
         /\ ~CallReturnsAtOnce => Len(frames) < MaxFrames
         /\ NextSubmissionCall(TRUE)
         /\ IF CallReturnsAtOnce
            THEN Schedule(tp, lk)
            ELSE autoTimerPending' = tp /\ leakedTimers' = lk

\* autoTick, with pl, tp and lk the values of playing and of the timers when it starts
AutoTick(pl, tp, lk) ==
    IF ~pl \/ queue = << >>
    THEN /\ StopAuto(lk)
         /\ IF queue = << >>
            THEN FinishReveal
            ELSE UNCHANGED << revealFinished, disabled >>
         /\ UNCHANGED << engineVars, processing, frames, nextLocked, awardsShown >>
    ELSE /\ playing' = pl
         /\ ~CallReturnsAtOnce => Len(frames) < MaxFrames
         /\ NextSubmissionCall(TRUE)
         /\ IF CallReturnsAtOnce
            THEN Schedule(tp, lk)
            ELSE autoTimerPending' = tp /\ leakedTimers' = lk

\* The click on btn-auto
AutoPlay ==
    /\ currentPhase = "reveal"
    /\ ~disabled["auto"]
    /\ IF playing
       THEN /\ StopAuto(leakedTimers)
            /\ UNCHANGED << engineVars, processing, revealFinished, frames, disabled,
                            nextLocked, awardsShown >>
       ELSE AutoTick(TRUE, autoTimerPending, leakedTimers)
    /\ UNCHANGED << pageVars, data >>

\* A timeout set by autoTick fires: the one autoTimer refers to
AutoTimerFires ==
    /\ autoTimerPending
    /\ AutoTick(playing, FALSE, leakedTimers)
    /\ UNCHANGED << pageVars, data >>

\* A timeout set by autoTick fires: one that autoTimer was overwritten over
LeakedTimerFires ==
    /\ leakedTimers > 0
    /\ AutoTick(playing, autoTimerPending, leakedTimers - 1)
    /\ UNCHANGED << pageVars, data >>

\* The click on btn-all, confirmed
RevealAll ==
    /\ currentPhase = "reveal"
    /\ ~disabled["all"]
    /\ StopAuto(leakedTimers)
    /\ SetEngine(RevealAllOn(Engine))
    /\ FinishReveal
    /\ UNCHANGED << pageVars, data, processing, frames, nextLocked, awardsShown >>

\* The click on btn-all, the confirm dialog dismissed
RevealAllDismissed ==
    /\ currentPhase = "reveal"
    /\ ~disabled["all"]
    /\ StopAuto(leakedTimers)
    /\ UNCHANGED << pageVars, data, engineVars, processing, revealFinished, frames,
                    disabled, nextLocked, awardsShown >>

\* The click on the reset button of the reveal controls
ResetReveal ==
    /\ currentPhase = "reveal"
    /\ ResetRevealOn(data)
    /\ UNCHANGED << pageVars, data >>

\* closeAwards
CloseAwards ==
    /\ awardsShown
    /\ awardsShown' = FALSE
    /\ UNCHANGED << pageVars, data, engineVars, playing, processing, revealFinished,
                    timerVars, frames, disabled, nextLocked >>

\* ------------------------------------------------------------------------
\* Phase machine: operations
\* ------------------------------------------------------------------------
\* A command can be given: the page-load phase check has settled and the
\* loading overlay, which covers the controls, is not displayed.  Each phase
\* function displays the control group of its phase and hides the others, so
\* a command is available in the phase its group belongs to.
UserCanAct == ~resumeInFlight /\ ~loading

\* loadFileMode's onchange handler with a file that holds blindHourSubmissions
LoadFileMode(d) ==
    /\ UserCanAct
    /\ currentPhase = "setup"
    /\ EnterRevealPhase(d)
    /\ UNCHANGED << flightVars, now >>
    /\ afterReset' = FALSE
    /\ UNCHANGED backendActive

\* loadFileMode's onchange handler with a file f that lacks a property: data
\* is assigned first; without blindHourSubmissions the handler throws at once,
\* without contestants enterRevealPhase runs until resetReveal throws; the
\* catch block hides the loading overlay and shows the error.
LoadFileModeMalformed(f) ==
    /\ UserCanAct
    /\ currentPhase = "setup"
    /\ data' = f
    /\ IF f.lacks = "blindHourSubmissions"
       THEN UNCHANGED << sessionVars, state, queue, revealed, acceptedCount,
                         rankChangeCount, playing, processing, mvp, lastMinuteHero,
                         submissionCounts, mostPersistent, revealFinished,
                         autoTimerPending, leakedTimers, frames, disabled, nextLocked,
                         awardsShown >>
       ELSE /\ SetSession(EnterRevealSession(Session))
            /\ ResetRevealOn(f)
    /\ UNCHANGED << flightVars, now >>
    /\ afterReset' = FALSE
    /\ UNCHANGED backendActive

\* Time passes.
AdvanceTime ==
    /\ now < MaxClockSteps * GrainMs
    /\ now' = now + GrainMs
    /\ UNCHANGED << revealVars, sessionVars, flightVars >>
    /\ UNCHANGED envVars

\* The page-load check finds no session, or the backend cannot be reached.
InitNoSession ==
    /\ resumeInFlight
    /\ resumeInFlight' = FALSE
    /\ UNCHANGED << revealVars, sessionVars, now, startInFlight, pollsInFlight,
                    freezeInFlight, revealInFlight, resetInFlight, demoInFlight >>
    /\ UNCHANGED envVars

\* The page-load check finds the backend in phase 'live' or 'frozen'.
InitResumeLive(tm) ==
    /\ resumeInFlight
    /\ resumeInFlight' = FALSE
    /\ SetSession(EnterLivePhase(Session, tm, now))
    /\ UNCHANGED << revealVars, now, startInFlight, pollsInFlight, freezeInFlight,
                    revealInFlight, resetInFlight, demoInFlight >>
    /\ backendActive
    /\ UNCHANGED envVars

\* The page-load check finds the backend in phase 'reveal'.
InitResumeReveal(d) ==
    /\ resumeInFlight
    /\ resumeInFlight' = FALSE
    /\ EnterRevealPhase(d)
    /\ UNCHANGED << now, startInFlight, pollsInFlight, freezeInFlight, revealInFlight,
                    resetInFlight, demoInFlight >>
    /\ backendActive
    /\ UNCHANGED envVars

\* startLive or startSimulation up to its first await
StartCall(kind) ==
    /\ UserCanAct
    /\ currentPhase = "setup"
    /\ startInFlight = "none"
    /\ startInFlight' = kind
    /\ loading' = TRUE
    /\ UNCHANGED << revealVars, now, currentPhase, contestDurationSec, freezeAtSec,
                    contestStartTimestamp, timerInterval, timeScale, isFrozen, livePoller,
                    enteredFrom, clockEvents, pollsInFlight, freezeInFlight, revealInFlight,
                    resetInFlight, demoInFlight, resumeInFlight >>
    /\ afterReset' = FALSE
    /\ UNCHANGED backendActive

StartLive == StartCall("live")
StartSimulation == StartCall("sim")

\* startLive or startSimulation once the backend has answered with standings
StartResumes(kind, tm) ==
    /\ startInFlight = kind
    /\ startInFlight' = "none"
    /\ SetSession(EnterLivePhase(Session, tm, now))
    /\ UNCHANGED << revealVars, now, pollsInFlight, freezeInFlight, revealInFlight,
                    resetInFlight, demoInFlight, resumeInFlight >>
    /\ backendActive' = TRUE
    /\ UNCHANGED afterReset

StartLiveResumes(tm) == StartResumes("live", tm)
StartSimulationResumes(tm) == StartResumes("sim", tm)

\* the catch block of startLive and startSimulation
StartFails ==
    /\ startInFlight # "none"
    /\ startInFlight' = "none"
    /\ loading' = FALSE
    /\ UNCHANGED << revealVars, now, currentPhase, contestDurationSec, freezeAtSec,
                    contestStartTimestamp, timerInterval, timeScale, isFrozen, livePoller,
                    enteredFrom, clockEvents, pollsInFlight, freezeInFlight, revealInFlight,
                    resetInFlight, demoInFlight, resumeInFlight >>
    /\ UNCHANGED envVars

\* loadDemoMode up to its await
LoadDemoMode ==
    /\ UserCanAct
    /\ currentPhase = "setup"
    /\ ~demoInFlight
    /\ demoInFlight' = TRUE
    /\ loading' = TRUE
    /\ UNCHANGED << revealVars, now, currentPhase, contestDurationSec, freezeAtSec,
                    contestStartTimestamp, timerInterval, timeScale, isFrozen, livePoller,
                    enteredFrom, clockEvents, startInFlight, pollsInFlight, freezeInFlight,
                    revealInFlight, resetInFlight, resumeInFlight >>
    /\ afterReset' = FALSE
    /\ UNCHANGED backendActive

\* loadDemoMode once the demo data has arrived
LoadDemoModeResumes(d) ==
    /\ demoInFlight
    /\ demoInFlight' = FALSE
    /\ EnterRevealPhase(d)
    /\ UNCHANGED << now, startInFlight, pollsInFlight, freezeInFlight, revealInFlight,
                    resetInFlight, resumeInFlight >>
    /\ UNCHANGED envVars

\* the catch block of loadDemoMode
LoadDemoModeFails ==
    /\ demoInFlight
    /\ demoInFlight' = FALSE
    /\ loading' = FALSE
    /\ UNCHANGED << revealVars, now, currentPhase, contestDurationSec, freezeAtSec,
                    contestStartTimestamp, timerInterval, timeScale, isFrozen, livePoller,
                    enteredFrom, clockEvents, startInFlight, pollsInFlight, freezeInFlight,
                    revealInFlight, resetInFlight, resumeInFlight >>
    /\ UNCHANGED envVars

\* The contest timer fires: updateTimerDisplay.
TimerTick ==
    /\ timerInterval
    /\ SetSession(UpdateTimerDisplay(Session, now))
    /\ UNCHANGED << revealVars, now, flightVars >>
    /\ UNCHANGED envVars

\* pollLiveStandings up to its await
PollCall ==
    /\ pollsInFlight < MaxPolls
    /\ pollsInFlight' = pollsInFlight + 1
    /\ UNCHANGED << revealVars, sessionVars, now, startInFlight, freezeInFlight,
                    revealInFlight, resetInFlight, demoInFlight, resumeInFlight >>
    /\ UNCHANGED envVars

\* The poller's interval fires.
PollTimerFires == livePoller /\ PollCall

\* manualRefresh, a command of the live controls
ManualRefresh == UserCanAct /\ currentPhase = "live" /\ PollCall

\* pollLiveStandings once the backend has answered with phase ph
PollLiveStandingsOn(s, ph) ==
    IF ph \in {"ended", "finished"}
    THEN EnterContestEndedPhase([s EXCEPT !.livePoller = FALSE])
    ELSE IF ph = "frozen"
    THEN LET s1 == IF s.timeScale <= 1 THEN [s EXCEPT !.livePoller = FALSE] ELSE s
         IN  IF s1.currentPhase # "frozen" THEN EnterFrozenPhase(s1) ELSE s1
    ELSE s

PollLiveStandingsResumes(ph) ==
    /\ pollsInFlight > 0
    /\ pollsInFlight' = pollsInFlight - 1
    /\ SetSession(PollLiveStandingsOn(Session, ph))
    /\ UNCHANGED << revealVars, now, startInFlight, freezeInFlight, revealInFlight,
                    resetInFlight, demoInFlight, resumeInFlight >>
    /\ UNCHANGED envVars

\* doFreeze up to its await, a command of the live controls
DoFreeze ==
    /\ UserCanAct
    /\ currentPhase = "live"
    /\ ~freezeInFlight
    /\ freezeInFlight' = TRUE
    /\ loading' = TRUE
    /\ UNCHANGED << revealVars, now, currentPhase, contestDurationSec, freezeAtSec,
                    contestStartTimestamp, timerInterval, timeScale, isFrozen, livePoller,
                    enteredFrom, clockEvents, startInFlight, pollsInFlight, revealInFlight,
                    resetInFlight, demoInFlight, resumeInFlight >>
    /\ UNCHANGED envVars

\* doFreeze once the backend has frozen the scoreboard
DoFreezeResumes ==
    /\ freezeInFlight
    /\ freezeInFlight' = FALSE
    /\ SetSession(EnterFrozenPhase([Session EXCEPT !.livePoller = FALSE,
                                                   !.loading = FALSE]))
    /\ UNCHANGED << revealVars, now, startInFlight, pollsInFlight, revealInFlight,
                    resetInFlight, demoInFlight, resumeInFlight >>
    /\ UNCHANGED envVars

\* the catch block of doFreeze
DoFreezeFails ==
    /\ freezeInFlight
    /\ freezeInFlight' = FALSE
    /\ loading' = FALSE
    /\ UNCHANGED << revealVars, now, currentPhase, contestDurationSec, freezeAtSec,
                    contestStartTimestamp, timerInterval, timeScale, isFrozen, livePoller,
                    enteredFrom, clockEvents, startInFlight, pollsInFlight, revealInFlight,
                    resetInFlight, demoInFlight, resumeInFlight >>
    /\ UNCHANGED envVars

\* doStartReveal up to its first await, a command of the ended controls
DoStartReveal ==
    /\ UserCanAct
    /\ currentPhase = "ended"
    /\ ~revealInFlight
    /\ revealInFlight' = TRUE
    /\ loading' = TRUE
    /\ UNCHANGED << revealVars, now, currentPhase, contestDurationSec, freezeAtSec,
                    contestStartTimestamp, timerInterval, timeScale, isFrozen, livePoller,
                    enteredFrom, clockEvents, startInFlight, pollsInFlight, freezeInFlight,
                    resetInFlight, demoInFlight, resumeInFlight >>
    /\ UNCHANGED envVars

\* doStartReveal once the backend answers phase 'reveal' with data
DoStartRevealResumes(d) ==
    /\ revealInFlight
    /\ revealInFlight' = FALSE
    /\ EnterRevealPhase(d)
    /\ UNCHANGED << now, startInFlight, pollsInFlight, freezeInFlight, resetInFlight,
                    demoInFlight, resumeInFlight >>
    /\ UNCHANGED envVars

\* the catch block of doStartReveal: the call failed or the data is not ready
DoStartRevealFails ==
    /\ revealInFlight
    /\ revealInFlight' = FALSE
    /\ loading' = FALSE
    /\ UNCHANGED << revealVars, now, currentPhase, contestDurationSec, freezeAtSec,
                    contestStartTimestamp, timerInterval, timeScale, isFrozen, livePoller,
                    enteredFrom, clockEvents, startInFlight, pollsInFlight, freezeInFlight,
                    resetInFlight, demoInFlight, resumeInFlight >>
    /\ UNCHANGED envVars

\* doReset, confirmed, up to its await; a command of every control group
DoReset ==
    /\ UserCanAct
    /\ currentPhase # "setup"
    /\ ~resetInFlight
    /\ resetInFlight' = TRUE
    /\ timerInterval' = FALSE
    /\ UNCHANGED << revealVars, now, currentPhase, contestDurationSec, freezeAtSec,
                    contestStartTimestamp, timeScale, isFrozen, livePoller, loading,
                    enteredFrom, clockEvents, startInFlight, pollsInFlight, freezeInFlight,
                    revealInFlight, demoInFlight, resumeInFlight >>
    /\ UNCHANGED envVars

\* location.reload(), in doReset's try and catch alike: the page is loaded
\* anew, which drops every timer and every pending continuation.  ok says
\* that the backend has carried out the reset (POST /api/reset: reset to setup).
DoResetReloads(ok) ==
    /\ resetInFlight
    /\ backendActive' = IF ok THEN FALSE ELSE backendActive
    /\ afterReset' = TRUE
    /\ currentPhase' = "setup"
    /\ contestDurationSec' = 0
    /\ freezeAtSec' = 0
    /\ contestStartTimestamp' = 0
    /\ timerInterval' = FALSE
    /\ timeScale' = 1
    /\ isFrozen' = FALSE
    /\ livePoller' = FALSE
    /\ loading' = FALSE
    /\ enteredFrom' = NeverEntered
    /\ clockEvents' = NoClockEvents
    /\ startInFlight' = "none"
    /\ pollsInFlight' = 0
    /\ freezeInFlight' = FALSE
    /\ revealInFlight' = FALSE
    /\ resetInFlight' = FALSE
    /\ demoInFlight' = FALSE
    /\ resumeInFlight' = TRUE
    /\ data' = NoData
    /\ state' = << >>
    /\ queue' = << >>
    /\ revealed' = 0
    /\ acceptedCount' = 0
    /\ rankChangeCount' = 0
    /\ playing' = FALSE
    /\ processing' = FALSE
    /\ mvp' = NoMvp
    /\ lastMinuteHero' = NoHero
    /\ submissionCounts' = NoCounts
    /\ mostPersistent' = NoPersistent
    /\ revealFinished' = FALSE
    /\ autoTimerPending' = FALSE
    /\ leakedTimers' = 0
    /\ frames' = << >>
    /\ disabled' = [b \in Buttons |-> FALSE]
    /\ nextLocked' = FALSE
    /\ awardsShown' = FALSE
    /\ UNCHANGED now

\* ------------------------------------------------------------------------
\* Specifications
\* ------------------------------------------------------------------------
\* The reveal engine, on a page that found no session and had a file loaded
Next ==
    \/ InitNoSession
    \/ \E d \in Datasets : LoadFileMode(d)
    \/ StartRevealAnimation
    \/ NextSubmission
    \/ \E k \in DOMAIN frames : StepVerdict(k)
    \/ \E k \in DOMAIN frames : StepRank(k)
    \/ \E k \in DOMAIN frames : StepFinish(k)
    \/ AutoPlay
    \/ AutoTimerFires
    \/ LeakedTimerFires
    \/ RevealAll
    \/ RevealAllDismissed
    \/ ResetReveal
    \/ CloseAwards

Spec == Init /\ [][Next]_vars

\* Step mode alone: every nextSubmission call runs to completion before the
\* next command, and nothing but btn-start and btn-next is used.
NextStepMode ==
    \/ InitNoSession
    \/ \E d \in Datasets : LoadFileMode(d)
    \/ StartRevealAnimation
    \/ NextSubmission
    \/ \E k \in DOMAIN frames : StepVerdict(k)
    \/ \E k \in DOMAIN frames : StepRank(k)
    \/ \E k \in DOMAIN frames : StepFinish(k)

SpecStepMode == Init /\ [][NextStepMode]_vars

\* Data for the ranking: MaxRanked contestants, every assignment of frozen
\* ranks, two solved counts and two penalties each, and an empty queue
RankHandles == << "A", "B", "C", "D", "E" >>
RankPermutations ==
    {f \in [1..MaxRanked -> 1..MaxRanked] : \A i, j \in 1..MaxRanked : f[i] = f[j] => i = j}
RankDatasets ==
    {[contestants |->
          [i \in 1..MaxRanked |->
              [handle |-> RankHandles[i], freezeRank |-> f[i],
               freezeSolvedCount |-> sv[i], freezePenalty |-> pn[i],
               problemResultsAtFreeze |->
                   CellsSolved(IF sv[i] = 1 THEN {"R"} ELSE {"R", "S"})]],
      blindHourSubmissions |-> << >>] :
        f \in RankPermutations,
        sv \in [1..MaxRanked -> {1, 2}],
        pn \in [1..MaxRanked -> {100, 200}]}

\* The ranking alone: data with an empty queue is loaded and revealAll, whose
\* only effect on the contestants is then recalcRanks, is run once or more
NextRank ==
    \/ InitNoSession
    \/ \E d \in RankDatasets : LoadFileMode(d)
    \/ StartRevealAnimation
    \/ RevealAll

SpecRank == Init /\ [][NextRank]_vars

\* Data for the MVP tracking of step mode.
\* Five contestants in rank order; E, frozen at rank 5, is one problem behind.
BaselineFive ==
    [i \in 1..5 |->
        [handle |-> RankHandles[i], freezeRank |-> i,
         freezeSolvedCount |-> IF i = 5 THEN 1 ELSE 2,
         freezePenalty |-> IF i = 5 THEN 50 ELSE 100 * i - 50,
         problemResultsAtFreeze |-> CellsSolved(IF i = 5 THEN {"R"} ELSE {"R", "S"})]]
\* The tied pair of BaselineTie followed by a third contestant without a solve
BaselineTieThird ==
    BaselineTie \o
    << [handle |-> "C", freezeRank |-> 3, freezeSolvedCount |-> 0, freezePenalty |-> 0,
        problemResultsAtFreeze |-> CellsSolved({})] >>
MvpSubPool ==
    { Sub("E", "Q", "OK", 754, 0),
      Sub("C", "P", "OK", 7000, 1),
      Sub("A", "Q", "OK", 7100, 0),
      Sub("B", "Q", "WRONG_ANSWER", 7050, 0) }
MvpDatasets ==
    [contestants : {BaselineFive, BaselineTieThird},
     blindHourSubmissions : {q \in SeqsUpTo(MvpSubPool, MaxQueue) : TimeOrdered(q)}]

\* Step mode alone, on the data for the MVP tracking
NextStepMvp ==
    \/ InitNoSession
    \/ \E d \in MvpDatasets : LoadFileMode(d)
    \/ StartRevealAnimation
    \/ NextSubmission
    \/ \E k \in DOMAIN frames : StepVerdict(k)
    \/ \E k \in DOMAIN frames : StepRank(k)
    \/ \E k \in DOMAIN frames : StepFinish(k)

SpecStepMvp == Init /\ [][NextStepMvp]_vars

\* Data for the last-minute tracking: accepted submissions at relativeTimeSec
\* = 0, two of them at the same time, and a later one
HeroSubPool ==
    { Sub("B", "Q", "OK", 0, 0),
      Sub("A", "Q", "OK", 0, 0),
      Sub("A", "T", "WRONG_ANSWER", 0, 0),
      Sub("A", "T", "OK", 754, 0) }
HeroDatasets ==
    [contestants : {BaselineSwap},
     blindHourSubmissions : {q \in SeqsUpTo(HeroSubPool, MaxQueue) : TimeOrdered(q)}]

\* Steps run one at a time, and revealAll, on the data for the last-minute
\* tracking
NextHero ==
    \/ InitNoSession
    \/ \E d \in HeroDatasets : LoadFileMode(d)
    \/ StartRevealAnimation
    \/ NextSubmission
    \/ \E k \in DOMAIN frames : StepVerdict(k)
    \/ \E k \in DOMAIN frames : StepRank(k)
    \/ \E k \in DOMAIN frames : StepFinish(k)
    \/ RevealAll

SpecHero == Init /\ [][NextHero]_vars

\* The click on btn-auto while auto-play is not running
AutoPlayStart == ~playing /\ AutoPlay

\* Auto-play left to itself: it is started and nothing else is clicked.  The
\* event loop runs every timeout that is due and resumes every sleep that has
\* elapsed, so the timer and the continuations of a suspended call are
\* weakly fair.
NextAuto ==
    \/ InitNoSession
    \/ \E d \in Datasets : LoadFileMode(d)
    \/ StartRevealAnimation
    \/ AutoPlayStart
    \/ AutoTimerFires
    \/ \E k \in DOMAIN frames : StepVerdict(k)
    \/ \E k \in DOMAIN frames : StepRank(k)
    \/ \E k \in DOMAIN frames : StepFinish(k)

SpecAuto ==
    /\ Init
    /\ [][NextAuto]_vars
    /\ WF_vars(AutoTimerFires)
    /\ WF_vars(\E k \in DOMAIN frames : StepVerdict(k))
    /\ WF_vars(\E k \in DOMAIN frames : StepRank(k))
    /\ WF_vars(\E k \in DOMAIN frames : StepFinish(k))

\* The reveal data the phase machine is run with
PhaseDatasets ==
    {[contestants |-> BaselineSwap, blindHourSubmissions |-> << >>]}

\* The phase machine and the contest timer: every command outside the reveal
\* controls, the timers and the backend's answers
NextPhase ==
    \/ AdvanceTime
    \/ InitNoSession
    \/ \E tm \in ResumeLiveTimings \cup ResumeFrozenTimings : InitResumeLive(tm)
    \/ \E d \in PhaseDatasets : InitResumeReveal(d)
    \/ \E d \in PhaseDatasets : LoadFileMode(d)
    \/ \E f \in MalformedFiles : LoadFileModeMalformed(f)
    \/ StartLive
    \/ \E tm \in StartLiveTimings : StartLiveResumes(tm)
    \/ StartSimulation
    \/ \E tm \in StartSimulationTimings : StartSimulationResumes(tm)
    \/ StartFails
    \/ LoadDemoMode
    \/ \E d \in PhaseDatasets : LoadDemoModeResumes(d)
    \/ LoadDemoModeFails
    \/ TimerTick
    \/ PollTimerFires
    \/ ManualRefresh
    \/ \E ph \in {"live", "frozen", "ended"} : PollLiveStandingsResumes(ph)
    \/ DoFreeze
    \/ DoFreezeResumes
    \/ DoFreezeFails
    \/ DoStartReveal
    \/ \E d \in PhaseDatasets : DoStartRevealResumes(d)
    \/ DoStartRevealFails
    \/ DoReset
    \/ \E ok \in BOOLEAN : DoResetReloads(ok)

SpecPhase == Init /\ [][NextPhase]_vars

\* ------------------------------------------------------------------------
\* Claims
\* ------------------------------------------------------------------------
\* What revealAll computes from the state resetReveal produces for the loaded data
BatchFromReset == RevealAllOn(ResetEngine(data))

\* Step mode has been run to exhaustion (under SpecStepMode): the queue is
\* empty, no call is suspended and the last call has run finishReveal
StepModeExhausted ==
    currentPhase = "reveal" /\ queue = << >> /\ frames = << >> /\ revealFinished

\* C1: (as claimed) for every baseline and every time-ordered queue, step mode
\* run to exhaustion from the reset state leaves every contestant with the
\* rank, solved count and penalty that one revealAll from the reset state gives.
ModeEquivalenceScoring ==
    StepModeExhausted =>
        \A i \in DOMAIN state :
            /\ state[i].rank = BatchFromReset.state[i].rank
            /\ state[i].solved = BatchFromReset.state[i].solved
            /\ state[i].penalty = BatchFromReset.state[i].penalty

\* C2: (as claimed) step mode run to exhaustion from the reset state ends with
\* the MVP, the most-persistent candidate and the last-minute candidate that
\* one revealAll from the reset state gives.
ModeEquivalenceAwards ==
    StepModeExhausted =>
        /\ mvp = BatchFromReset.mvp
        /\ mostPersistent = BatchFromReset.mostPersistent
        /\ lastMinuteHero = BatchFromReset.lastMinuteHero

\* The submissions of q by handle h
ByHandle(q, h) == SelectSeq(q, LAMBDA x : x.handle = h)

\* C3: (as claimed) once a contestant's cell for a problem is solved, a further
\* submission by that handle on that problem, revealed by nextSubmission or by
\* revealAll, leaves the contestant's solved count and penalty unchanged and
\* the cell solved.
WriteOnceAcceptance ==
    [][ /\ \A k \in DOMAIN frames :
             LET f == frames[k] IN
             (StepVerdict(k) /\ ~f.stale /\ state[f.ci].probs[f.sub.problemIndex].solved)
                => /\ state'[f.ci].solved = state[f.ci].solved
                   /\ state'[f.ci].penalty = state[f.ci].penalty
                   /\ state'[f.ci].probs[f.sub.problemIndex].solved
        /\ \A i \in DOMAIN state :
             LET mine == ByHandle(queue, state[i].handle) IN
             ( /\ RevealAll
               /\ mine # << >>
               /\ \A n \in DOMAIN mine : state[i].probs[mine[n].problemIndex].solved )
                => /\ state'[i].solved = state[i].solved
                   /\ state'[i].penalty = state[i].penalty
                   /\ \A n \in DOMAIN mine : state'[i].probs[mine[n].problemIndex].solved
      ]_vars

\* C4: (as claimed) at most one nextSubmission call is between its pop and its
\* return at any time.
AtMostOneStepInFlight == Len(frames) <= 1

\* The minutes an accepted submission costs, written out from the claim
ClaimedMinutes(sub) == (sub.relativeTimeSec \div 60) + 20 * sub.wrongAttemptsBefore

RECURSIVE ClaimedMinutesSum(_)
ClaimedMinutesSum(q) ==
    IF q = << >> THEN 0
    ELSE (IF Head(q).verdict = "OK" THEN ClaimedMinutes(Head(q)) ELSE 0)
         + ClaimedMinutesSum(Tail(q))

AcceptedIn(q) == Len(SelectSeq(q, LAMBDA x : x.verdict = "OK"))

\* Every accepted submission of q hits a cell of contestant i that is not
\* solved, and no two of them hit the same cell
FirstAcceptancesOnly(i, q) ==
    /\ \A n \in DOMAIN q : q[n].verdict = "OK" => ~state[i].probs[q[n].problemIndex].solved
    /\ \A n, m \in DOMAIN q :
          (n < m /\ q[n].verdict = "OK" /\ q[m].verdict = "OK")
              => q[n].problemIndex # q[m].problemIndex

\* C5: an Accepted submission applied to a cell that is not solved adds
\* floor(relativeTimeSec / 60) + 20 * wrongAttemptsBefore to the contestant's
\* penalty and 1 to solved, in nextSubmission and in revealAll (754 s with 2
\* wrong attempts adds 52; 7000 s with 1 wrong attempt turns 3 / 300 into
\* 4 / 436); a Rejected submission leaves the penalty as it is.
PenaltyFormula ==
    [][ /\ \A k \in DOMAIN frames :
             LET f == frames[k]
                 c == state[f.ci]
             IN  (StepVerdict(k) /\ ~f.stale)
                 => IF f.sub.verdict = "OK"
                    THEN ~c.probs[f.sub.problemIndex].solved
                         => /\ state'[f.ci].penalty = c.penalty + ClaimedMinutes(f.sub)
                            /\ state'[f.ci].solved = c.solved + 1
                            /\ (f.sub.relativeTimeSec = 754 /\ f.sub.wrongAttemptsBefore = 2)
                                   => state'[f.ci].penalty = c.penalty + 52
                            /\ ( /\ f.sub.relativeTimeSec = 7000
                                 /\ f.sub.wrongAttemptsBefore = 1
                                 /\ c.solved = 3 /\ c.penalty = 300 )
                                   => (state'[f.ci].solved = 4 /\ state'[f.ci].penalty = 436)
                    ELSE /\ state'[f.ci].penalty = c.penalty
                         /\ state'[f.ci].solved = c.solved
        /\ \A i \in DOMAIN state :
             LET mine == ByHandle(queue, state[i].handle) IN
             (RevealAll /\ FirstAcceptancesOnly(i, mine))
                => /\ state'[i].penalty = state[i].penalty + ClaimedMinutesSum(mine)
                   /\ state'[i].solved = state[i].solved + AcceptedIn(mine)
      ]_vars

\* C5 witness: the 7000 s / 1 wrong attempt acceptance has been applied by a
\* step to a contestant frozen at 3 solved / penalty 300
PenaltyApplied ==
    \E k \in DOMAIN frames :
        /\ frames[k].pc = "accepted"
        /\ ~frames[k].stale
        /\ frames[k].sub.relativeTimeSec = 7000
        /\ state[frames[k].ci].freezePenalty = 300
        /\ state[frames[k].ci].penalty = 436
        /\ state[frames[k].ci].solved = 4

\* C6: (as claimed) currentPhase changes to 'frozen' only when it was 'live'
\* immediately before: enterFrozenPhase never replaces 'setup', 'ended' or
\* 'reveal' by 'frozen', under every interleaving of timer ticks, poll
\* answers and the freeze command.
FrozenOnlyFromLive == enteredFrom["frozen"] \in {"none", "live"}

\* C7: (as claimed) currentPhase changes to 'reveal' only from 'ended' or
\* 'setup', never from 'live' or 'frozen'.
RevealOnlyFromEndedOrSetup == enteredFrom["reveal"] \in {"none", "ended", "setup"}

\* A step of the timer-driven autoTick
TimerStep == AutoTimerFires \/ LeakedTimerFires

\* C8: while playing is false (stopAuto has run and autoPlay has not been
\* started again) a firing auto-play timer, also one scheduled before the
\* stopAuto, pops no submission and starts no step, and nothing schedules a
\* new auto-play timer; a step in flight may still complete.
AutoPlayCancellation ==
    [][ /\ (~playing /\ TimerStep)
             => /\ UNCHANGED << queue, revealed, frames, processing, state >>
                /\ ~playing'
        /\ (~playing /\ ~playing')
             => /\ autoTimerPending' => autoTimerPending
                /\ leakedTimers' <= leakedTimers
      ]_vars

\* C8 witness: auto-play is cancelled while a timer it scheduled earlier is
\* still pending, with submissions left and no step in flight
CancelledWithTimerPending ==
    /\ ~playing
    /\ leakedTimers > 0
    /\ queue # << >>
    /\ ~processing
    /\ frames = << >>

HandleKnown(h) == \E i \in DOMAIN state : state[i].handle = h

\* A nextSubmission call (by a click or by autoTick) that pops a submission
PopStep ==
    /\ NextSubmission \/ AutoPlay \/ TimerStep
    /\ queue # << >>
    /\ queue' = Tail(queue)
    /\ revealed' = revealed + 1

\* C9: a popped submission whose handle is in no contestant is skipped.  In
\* nextSubmission the contestants, submissionCounts, mostPersistent,
\* lastMinuteHero, mvp and acceptedCount stay as they are, processing is false
\* again and no step is left in flight; revealAll ends with what it computes
\* from the queue without such submissions, and empties the queue.
UnknownHandleSkipped ==
    [][ /\ (PopStep /\ ~HandleKnown(Head(queue).handle))
             => /\ UNCHANGED << state, submissionCounts, mostPersistent, lastMinuteHero,
                                mvp, acceptedCount, rankChangeCount, frames >>
                /\ ~processing'
        /\ RevealAll
             => LET known == SelectSeq(queue, LAMBDA x : HandleKnown(x.handle))
                    r == RevealAllOn([Engine EXCEPT !.queue = known])
                IN  /\ state' = r.state
                    /\ submissionCounts' = r.submissionCounts
                    /\ mostPersistent' = r.mostPersistent
                    /\ lastMinuteHero' = r.lastMinuteHero
                    /\ mvp' = r.mvp
                    /\ acceptedCount' = r.acceptedCount
                    /\ queue' = << >>
                    /\ revealed' = revealed + Len(queue)
      ]_vars

\* C9 witness: step mode has just skipped a submission of the unknown handle
\* and submissions are left to reveal
UnknownHandlePopped ==
    /\ revealed >= 1
    /\ Len(data.blindHourSubmissions) = revealed + Len(queue)
    /\ ~HandleKnown(data.blindHourSubmissions[revealed].handle)
    /\ queue # << >>
    /\ ~revealFinished
    /\ ~processing
    /\ frames = << >>

\* C10: during a reveal no operation but resetReveal (which restarts it from
\* the frozen cells) takes a cell from solved to not solved, and a Rejected
\* step leaves a solved cell as it is: it sets failed only on a cell that is
\* not solved.
SolvedStaysSolved ==
    [][ \/ ResetReveal
        \/ /\ \A i \in DOMAIN state : \A p \in ProblemIds :
                 state[i].probs[p].solved => state'[i].probs[p].solved
           /\ \A k \in DOMAIN frames :
                 LET f == frames[k]
                     p == f.sub.problemIndex
                 IN  (StepVerdict(k) /\ ~f.stale /\ f.sub.verdict # "OK")
                     => IF state[f.ci].probs[p].solved
                        THEN state'[f.ci].probs[p] = state[f.ci].probs[p]
                        ELSE state'[f.ci].probs[p].failed /\ ~state'[f.ci].probs[p].solved
      ]_vars

\* C10 witness: a Rejected submission has been applied to a solved cell
RejectedOnSolvedCell ==
    \E k \in DOMAIN frames :
        /\ frames[k].pc = "rejected"
        /\ ~frames[k].stale
        /\ state[frames[k].ci].probs[frames[k].sub.problemIndex].solved

\* C11: at every time the timer can tick, for every start, duration, freeze
\* offset and scale of a started timer, updateTimerDisplay's remaining and
\* remainingUntilFreeze are not negative, they are 0 once elapsedSec has
\* reached contestDurationSec, respectively freezeAtSec, and the displayed
\* hours, minutes and seconds are not negative.
ClockClamped ==
    LET e == ElapsedSec(Session, now)
        r == Remaining(Session, now)
        f == RemainingUntilFreeze(Session, now)
    IN  /\ r >= 0
        /\ f >= 0
        /\ e >= contestDurationSec => r = 0
        /\ e < contestDurationSec => r = contestDurationSec - e
        /\ e >= freezeAtSec => f = 0
        /\ \A k \in 1..3 : FormatTime(r)[k] >= 0

\* C11 witness: the timer is set and the clock has passed both the freeze
\* and the end of the contest, so the next tick computes both values clamped
TickDueAfterEnd ==
    /\ timerInterval
    /\ contestDurationSec > 0
    /\ ElapsedSec(Session, now) > contestDurationSec
    /\ ElapsedSec(Session, now) > freezeAtSec

\* updateTimerDisplay has ended the contest in this step
ClockEndsNow == clockEvents'.end > clockEvents.end

\* C12: within a session the clock ends the contest at most once; when it does,
\* elapsedSec has reached contestDurationSec, the phase becomes 'ended' and
\* the timer is cleared, so no later tick follows; and a tick that finds
\* elapsedSec >= contestDurationSec in phase 'live' or 'frozen' is such an end.
ClockEndsExactlyOnce ==
    /\ [](clockEvents.end <= 1)
    /\ [][ /\ ClockEndsNow =>
               /\ ((now' - contestStartTimestamp') * timeScale') \div 1000
                      >= contestDurationSec'
               /\ currentPhase' = "ended"
               /\ ~timerInterval'
           /\ ( /\ TimerTick
                /\ currentPhase \in {"live", "frozen"}
                /\ ElapsedSec(Session, now) >= contestDurationSec ) => ClockEndsNow
           /\ ( /\ TimerTick
                /\ ElapsedSec(Session, now) < contestDurationSec ) => ~ClockEndsNow
      ]_vars

\* C12 witness: a tick has ended the contest after the clock ran for the
\* whole duration, and the phase is 'ended' with the timer cleared
ClockHasEnded ==
    /\ clockEvents.end = 1
    /\ currentPhase = "ended"
    /\ enteredFrom["ended"] \in {"live", "frozen"}
    /\ now >= 2 * GrainMs

\* A load or start with a malformed snapshot: a file that lacks contestants or
\* blindHourSubmissions, or a startLive whose freeze second is negative or
\* past the duration
MalformedLoad ==
    \/ \E f \in MalformedFiles : LoadFileModeMalformed(f)
    \/ \E tm \in StartLiveTimings :
           /\ tm.freezeAtSecond < 0 \/ tm.freezeAtSecond > tm.durationSec
           /\ StartLiveResumes(tm)

\* C13: (as claimed) a load or start with a malformed snapshot leaves
\* currentPhase = 'setup' and leaves data, state, queue and the timer as
\* they were before the call.
MalformedSnapshotRejected ==
    [][ MalformedLoad =>
            /\ currentPhase' = "setup"
            /\ UNCHANGED << data, state, queue, timerInterval, contestDurationSec,
                            freezeAtSec, isFrozen >>
      ]_vars

\* C14: whenever awards can be shown, the Hill Climber badge is built only
\* for a contestant of the reveal with a recorded delta > 0 and at least one
\* counted rank change; the persistence badge only for a (handle, problem)
\* pair with more than one counted submission; the Last-Minute Hero badge
\* only if an Accepted submission has been applied.
AwardsThresholds ==
    /\ HillClimberBadge =>
           /\ mvp.delta > 0
           /\ rankChangeCount > 0
           /\ FindIdx(state, mvp.handle) # 0
    /\ NotGiveUpBadge =>
           /\ mostPersistent.count > 1
           /\ CountOf(submissionCounts,
                      << mostPersistent.handle, mostPersistent.problemIndex >>) > 1
    /\ LastMinuteHeroBadge => acceptedCount > 0
    /\ (mvp.delta <= 0) => ~HillClimberBadge
    /\ (\A k \in DOMAIN submissionCounts : submissionCounts[k] <= 1) => ~NotGiveUpBadge
    /\ (acceptedCount = 0) => ~LastMinuteHeroBadge

\* C14 witness: the awards are shown after a finished reveal in which one
\* submission was accepted without any climb: a pair with exactly one
\* submission, no persistence badge, no Hill Climber badge, a hero badge
AwardsShownBelowThresholds ==
    /\ revealFinished
    /\ awardsShown
    /\ mostPersistent.count = 1
    /\ ~NotGiveUpBadge
    /\ ~HillClimberBadge
    /\ LastMinuteHeroBadge

\* C15: (as claimed) once doReset has run to its end, whether or not the
\* backend carried out the reset, the phase is 'setup', the standings state,
\* queue, counters, award candidates, timer and poller are discarded, and
\* they stay so until a new start or load command is given.
ResetEndsInSetup ==
    afterReset =>
        /\ currentPhase = "setup"
        /\ data = NoData
        /\ state = << >>
        /\ queue = << >>
        /\ revealed = 0 /\ acceptedCount = 0 /\ rankChangeCount = 0
        /\ mvp = NoMvp /\ lastMinuteHero = NoHero /\ mostPersistent = NoPersistent
        /\ ~timerInterval
        /\ ~livePoller

\* C16: the ranks recalcRanks assigns are a fixed point of recalcRanks (a
\* second application to the unchanged contestants changes no rank), they
\* follow solved count descending and penalty ascending, and two
\* contestants with equal (solved, penalty) are ranked in the order in which
\* they stand in the contestant sequence.
RankingStable ==
    [][ RevealAll =>
            /\ RecalcRanks(state') = state'
            /\ RecalcRanks(RecalcRanks(state)) = RecalcRanks(state)
            /\ {state'[i].rank : i \in DOMAIN state'} = DOMAIN state'
            /\ \A i, j \in DOMAIN state' :
                   /\ SortsBefore(state'[i], state'[j])
                          => state'[i].rank < state'[j].rank
                   /\ (i < j /\ SortsEqual(state'[i], state'[j]))
                          => state'[i].rank < state'[j].rank
            /\ revealFinished => \A i \in DOMAIN state : state'[i].rank = state[i].rank
      ]_vars

\* C16 witness: three contestants tied on (solved, penalty), frozen at ranks
\* 3, 2, 1 in the order of the data, have been ranked 1, 2, 3 by revealAll
TieRankedInInputOrder ==
    /\ revealFinished
    /\ Len(state) >= 3
    /\ SortsEqual(state[1], state[2]) /\ SortsEqual(state[2], state[3])
    /\ state[1].freezeRank = 3 /\ state[3].freezeRank = 1
    /\ state[1].rank < state[2].rank /\ state[2].rank < state[3].rank

\* The largest delta (freezeRank - rank) of the contestants st, 0 when none is
\* positive
LargestDelta(st) ==
    IF \E i \in DOMAIN st : st[i].delta > 0
    THEN CHOOSE d \in {st[i].delta : i \in DOMAIN st} :
             \A i \in DOMAIN st : st[i].delta <= d
    ELSE 0

\* C17: (as claimed) in step mode, after the ranks have been recomputed for
\* an Accepted step, mvp is the contestant with the largest positive delta
\* seen so far: when some contestant's delta exceeds mvp.delta, mvp becomes
\* a contestant with that delta, otherwise the earlier holder keeps it.
MvpIsLargestDeltaSeen ==
    [][ (\E k \in DOMAIN frames : StepRank(k)) =>
            IF LargestDelta(state') > mvp.delta
            THEN /\ mvp'.delta = LargestDelta(state')
                 /\ \E i \in DOMAIN state' :
                        /\ state'[i].handle = mvp'.handle
                        /\ state'[i].delta = mvp'.delta
            ELSE mvp' = mvp
      ]_vars

\* C18: (as claimed) whenever revealFinished is true the queue is empty and no
\* nextSubmission call is suspended, so no verdict is applied after
\* finishReveal has run.
FinishedOnlyWhenAllApplied ==
    revealFinished => (queue = << >> /\ frames = << >>)

\* The call frames[k] has popped its submission and not yet applied its verdict
PoppedUnapplied(k) == frames[k].pc = "pending" /\ ~frames[k].stale

\* C19: (as claimed) the verdict of a submission is applied only when every
\* submission popped before it has been applied: revealAll applies the rest
\* of the queue, and a step applies its verdict, only when no earlier popped
\* submission is still waiting for its verdict.
QueueOrderPreserved ==
    [][ /\ ( /\ RevealAll
             /\ \E i \in DOMAIN queue : FindIdx(state, queue[i].handle) # 0 )
            => \A k \in DOMAIN frames : ~PoppedUnapplied(k)
        /\ \A k \in DOMAIN frames :
               StepVerdict(k) => \A j \in 1..(k - 1) : ~PoppedUnapplied(j)
      ]_vars

\* C20: (as claimed) enterContestEndedPhase runs only in phase 'live' or
\* 'frozen', never while the phase is already 'ended' or 'reveal', and
\* once the phase is 'ended' it changes only to 'reveal' or, on reset, to
\* 'setup'.
EndedOnlyFromLiveOrFrozen ==
    /\ [](enteredFrom["ended"] \in {"none", "live", "frozen"})
    /\ [][ (currentPhase = "ended" /\ currentPhase' # "ended")
               => currentPhase' \in {"reveal", "setup"} ]_vars

\* The ranks of st are a permutation of 1..N, and a better rank goes with more
\* problems solved or, at equal solved, with no more penalty
RankOrdered(st) ==
    /\ {st[i].rank : i \in DOMAIN st} = 1..Len(st)
    /\ \A a, b \in DOMAIN st :
          st[a].rank < st[b].rank
              => \/ st[a].solved > st[b].solved
                 \/ st[a].solved = st[b].solved /\ st[a].penalty <= st[b].penalty

\* The nextSubmission call of frame k, which applied an Accepted submission to
\* a contestant of the present state, returns
AcceptedStepCompletes(k) ==
    /\ StepRank(k) \/ StepFinish(k)
    /\ frames[k].sub.verdict = "OK"
    /\ ~frames[k].stale
    /\ Len(frames') = Len(frames) - 1

\* C21: (as claimed) when a nextSubmission call that applied an Accepted
\* submission returns, and when revealAll has run, the ranks are a permutation
\* of 1..N and ordered by solved descending, then penalty ascending.
RankOrderAfterScoring ==
    [][ /\ \A k \in DOMAIN frames : AcceptedStepCompletes(k) => RankOrdered(state')
        /\ RevealAll => RankOrdered(state')
      ]_vars

\* C22: (as claimed) in every reveal state every contestant's delta is
\* freezeRank - rank, and the MVP that revealAll leaves, also when submissions
\* were revealed by steps before, has as its delta the MVP contestant's
\* freezeRank minus its final rank.
DeltaAgainstFrozenBaseline ==
    /\ [](\A i \in DOMAIN state : state[i].delta = state[i].freezeRank - state[i].rank)
    /\ [][ (RevealAll /\ mvp'.handle # "")
               => LET i == FindIdx(state', mvp'.handle)
                  IN  mvp'.delta = state'[i].freezeRank - state'[i].rank ]_vars

\* A nextSubmission call pops a Rejected submission of a known handle
RejectedPop ==
    /\ PopStep
    /\ Head(queue).verdict # "OK"
    /\ HandleKnown(Head(queue).handle)

\* C23: every piece of a nextSubmission call that processes a Rejected
\* submission (the pop, the verdict after the pending sleep, the return)
\* leaves the rank, delta, solved and penalty of every contestant, and mvp,
\* lastMinuteHero, acceptedCount and rankChangeCount, as they are.  Of the
\* contestants' cells only the submission's own cell changes, and only when
\* it is not solved; of the submission counts only the one of the
\* submission's (handle, problemIndex) changes, by one, at the pop.
RejectedStepFrame ==
    [][ /\ RejectedPop
             => /\ UNCHANGED << state, mvp, lastMinuteHero, acceptedCount, rankChangeCount >>
                /\ CountOf(submissionCounts', SubKey(Head(queue)))
                       = CountOf(submissionCounts, SubKey(Head(queue))) + 1
                /\ \A key \in DOMAIN submissionCounts' :
                       key # SubKey(Head(queue))
                           => CountOf(submissionCounts', key) = CountOf(submissionCounts, key)
        /\ \A k \in DOMAIN frames :
             LET f == frames[k] IN
             ((StepVerdict(k) \/ StepFinish(k)) /\ f.sub.verdict # "OK")
                => /\ UNCHANGED << mvp, lastMinuteHero, acceptedCount, rankChangeCount,
                                   submissionCounts >>
                   /\ DOMAIN state' = DOMAIN state
                   /\ \A i \in DOMAIN state :
                         /\ state'[i].rank = state[i].rank
                         /\ state'[i].delta = state[i].delta
                         /\ state'[i].solved = state[i].solved
                         /\ state'[i].penalty = state[i].penalty
                         /\ \A p \in ProblemIds :
                               \/ state'[i].probs[p] = state[i].probs[p]
                               \/ /\ ~f.stale
                                  /\ i = f.ci
                                  /\ p = f.sub.problemIndex
                                  /\ ~state[i].probs[p].solved
      ]_vars

\* C23 witness: a Rejected submission has been applied to a cell that was not
\* solved, and its call has not yet returned
RejectedMarkedFailed ==
    \E k \in DOMAIN frames :
        /\ frames[k].pc = "rejected"
        /\ ~frames[k].stale
        /\ state[frames[k].ci].probs[frames[k].sub.problemIndex].failed

\* The frozen fields of the reveal copies are those of the loaded snapshot
FrozenFieldsAsLoaded ==
    data.loaded =>
        /\ DOMAIN state = DOMAIN data.contestants
        /\ \A i \in DOMAIN state :
              /\ state[i].handle = data.contestants[i].handle
              /\ state[i].freezeRank = data.contestants[i].freezeRank
              /\ state[i].freezeSolvedCount = data.contestants[i].freezeSolvedCount
              /\ state[i].freezePenalty = data.contestants[i].freezePenalty

\* C24: once a snapshot is loaded, no reveal operation changes it (its
\* contestants with their problemResultsAtFreeze, its blindHourSubmissions),
\* every contestant's freezeRank, freezeSolvedCount and freezePenalty stay
\* those of the snapshot, and resetReveal, whatever was revealed before,
\* starts again from the snapshot's frozen values, cells and whole queue.
BaselineImmutable ==
    /\ []FrozenFieldsAsLoaded
    /\ [][ /\ data.loaded => data' = data
           /\ (ResetReveal /\ data.loaded)
                => /\ queue' = data.blindHourSubmissions
                   /\ \A i \in DOMAIN state' :
                         /\ state'[i].rank = data.contestants[i].freezeRank
                         /\ state'[i].solved = data.contestants[i].freezeSolvedCount
                         /\ state'[i].penalty = data.contestants[i].freezePenalty
                         /\ state'[i].probs = data.contestants[i].problemResultsAtFreeze
         ]_vars

\* C24 witness: the reveal has moved a contestant away from its frozen rank,
\* solved count and cells, and taken submissions off the queue
RevealMovedOffBaseline ==
    /\ data.loaded
    /\ Len(queue) < Len(data.blindHourSubmissions)
    /\ \E i \in DOMAIN state :
          /\ state[i].rank # state[i].freezeRank
          /\ state[i].solved # state[i].freezeSolvedCount
          /\ state[i].probs # data.contestants[i].problemResultsAtFreeze

\* The blind-hour submissions processed so far in this reveal: the first
\* `revealed` of the loaded queue
ProcessedKnown(n) ==
    {j \in 1..n : HandleKnown(data.blindHourSubmissions[j].handle)}
\* How many of the first n submissions are of a known handle and of the pair key
ProcessedCount(n, key) ==
    Cardinality({j \in ProcessedKnown(n) : SubKey(data.blindHourSubmissions[j]) = key})
ProcessedKeys == {SubKey(data.blindHourSubmissions[j]) : j \in ProcessedKnown(revealed)}
\* The submission with which a pair's count reached c
ReachedCount(j, c) ==
    /\ j \in ProcessedKnown(revealed)
    /\ ProcessedCount(j, SubKey(data.blindHourSubmissions[j])) = c

\* C25: after any sequence of submissions processed by steps or by revealAll,
\* submissionCounts holds for every (handle, problemIndex) the number of
\* processed submissions of known handles, mostPersistent.count is the
\* largest of these numbers, and mostPersistent names the pair whose count
\* reached that number first.
PersistenceTracking ==
    (currentPhase = "reveal" /\ data.loaded) =>
        /\ revealed + Len(queue) = Len(data.blindHourSubmissions)
        /\ DOMAIN submissionCounts = ProcessedKeys
        /\ \A key \in ProcessedKeys : submissionCounts[key] = ProcessedCount(revealed, key)
        /\ IF ProcessedKeys = {}
           THEN mostPersistent = NoPersistent
           ELSE /\ \A key \in ProcessedKeys : ProcessedCount(revealed, key) <= mostPersistent.count
                /\ \E j \in 1..revealed :
                      /\ ReachedCount(j, mostPersistent.count)
                      /\ \A n \in 1..(j - 1) : ~ReachedCount(n, mostPersistent.count)
                      /\ << mostPersistent.handle, mostPersistent.problemIndex >>
                             = SubKey(data.blindHourSubmissions[j])

\* C25 witness: two submissions of different pairs have been processed, each
\* pair has count 1, and mostPersistent names the pair of the first
PersistenceTieKeepsFirst ==
    /\ currentPhase = "reveal"
    /\ revealed = 2
    /\ Cardinality(ProcessedKeys) = 2
    /\ mostPersistent.count = 1
    /\ << mostPersistent.handle, mostPersistent.problemIndex >>
           = SubKey(data.blindHourSubmissions[1])

\* The processed Accepted submissions of known handles, as indices of the
\* loaded queue
ProcessedAccepted ==
    {j \in ProcessedKnown(revealed) : data.blindHourSubmissions[j].verdict = "OK"}

\* C26: (as claimed) with no step in flight, lastMinuteHero is a processed
\* Accepted submission of the largest relativeTimeSec (none processed: the
\* empty candidate), also when that time is 0 or shared by two submissions,
\* and lastMinuteHero.time never decreases during a reveal.
LastMinuteTracking ==
    /\ []( (currentPhase = "reveal" /\ data.loaded /\ frames = << >>)
             => IF ProcessedAccepted = {}
                THEN lastMinuteHero = NoHero
                ELSE \E j \in ProcessedAccepted :
                        /\ lastMinuteHero = HeroOf(data.blindHourSubmissions[j])
                        /\ \A n \in ProcessedAccepted :
                              data.blindHourSubmissions[n].relativeTimeSec
                                  <= data.blindHourSubmissions[j].relativeTimeSec )
    /\ [][lastMinuteHero'.time >= lastMinuteHero.time]_vars

\* The session a start or resume with timing tm has after enterLivePhase's
\* startContestTimer call, before the late-join check
AfterTimerStart(tm) ==
    StartContestTimer([SetPhase(Session, "live") EXCEPT !.loading = FALSE], tm, now)

\* enterLivePhase runs with timing tm
EntersLive(tm) ==
    InitResumeLive(tm) \/ StartLiveResumes(tm) \/ StartSimulationResumes(tm)

\* C27: the clock freezes the scoreboard at most once in a session, and it
\* does so on the tick that finds the phase 'live' and elapsedSec >=
\* freezeAtSec; once the phase is 'frozen', a tick that does not end the
\* contest and a poll answer 'frozen' change nothing of the session, and
\* enterLivePhase's late-join check after the timer start has already frozen
\* the scoreboard changes nothing either.
AutoFreezeOnceIdempotent ==
    /\ [](clockEvents.freeze <= 1)
    /\ [][ /\ (TimerTick /\ currentPhase = "live" /\ ElapsedSec(Session, now) >= freezeAtSec)
                => /\ clockEvents'.freeze = clockEvents.freeze + 1
                   /\ isFrozen'
                   /\ currentPhase' \in {"frozen", "ended"}
                   /\ enteredFrom'["frozen"] = "live"
           /\ (TimerTick /\ currentPhase = "frozen" /\ Remaining(Session, now) > 0)
                => UNCHANGED sessionVars
           /\ (PollLiveStandingsResumes("frozen") /\ currentPhase = "frozen")
                => UNCHANGED sessionVars
           /\ \A tm \in StartLiveTimings \cup StartSimulationTimings
                          \cup ResumeLiveTimings \cup ResumeFrozenTimings :
                 (EntersLive(tm) /\ AfterTimerStart(tm).currentPhase = "frozen")
                    => /\ currentPhase' = "frozen"
                       /\ isFrozen'
                       /\ clockEvents' = AfterTimerStart(tm).clockEvents
                       /\ enteredFrom' = AfterTimerStart(tm).enteredFrom
                       /\ livePoller' = AfterTimerStart(tm).livePoller
                       /\ timerInterval' = AfterTimerStart(tm).timerInterval
         ]_vars

\* C27 witness: the clock has frozen the scoreboard, time has moved on past
\* the freeze with the timer still ticking, and a poll awaits its answer
FrozenByClockWithRequestsDue ==
    /\ currentPhase = "frozen"
    /\ clockEvents.freeze = 1
    /\ timerInterval
    /\ ElapsedSec(Session, now) > freezeAtSec
    /\ Remaining(Session, now) > 0
    /\ pollsInFlight > 0

\* C28: (as claimed) step mode run to exhaustion from the reset state leaves
\* every contestant with the problem cells that one revealAll from the reset
\* state gives; a cell that received only Rejected submissions is failed and
\* not solved in both.
ModeEquivalenceCells ==
    StepModeExhausted =>
        \A i \in DOMAIN state :
            \A p \in ProblemIds : state[i].probs[p] = BatchFromReset.state[i].probs[p]

\* The auto-play timeouts that have been set and have neither fired nor been
\* cleared
PendingAutoTimers == (IF autoTimerPending THEN 1 ELSE 0) + leakedTimers

\* C29: (as claimed) at most one auto-play timer is pending at any time, and
\* a timer is set only when no nextSubmission call made by an autoTick is
\* still in flight, also after auto-play is paused and started again during
\* a step.
AutoPlaySingleLoop ==
    /\ [](PendingAutoTimers <= 1)
    /\ [][ PendingAutoTimers' > PendingAutoTimers
               => \A k \in DOMAIN frames' : ~frames'[k].auto ]_vars

\* C30: (as claimed) the awards overlay is shown only by the btn-next command,
\* with revealFinished true and no nextSubmission call in flight; no autoTick
\* and no other operation shows it.
AwardsOnlyAfterFinish ==
    [][ (awardsShown' /\ ~awardsShown)
            => /\ NextSubmission
               /\ revealFinished
               /\ ~processing
               /\ frames = << >> ]_vars

\* The event sequences a nextSubmission call for submission sub may have
\* emitted while it is suspended
EventPrefixes(sub) ==
    LET verdict == IF sub.verdict = "OK" THEN "accepted" ELSE "rejected" IN
    { << "pending" >>, << "pending", verdict >> }
        \cup (IF sub.verdict = "OK"
              THEN { << "pending", "accepted", "rank-change" >> }
              ELSE {})

\* C31: a nextSubmission call that pops a submission of a known handle emits
\* one pending event, then one verdict event of the kind of the submission's
\* verdict, then a rank-change event only if the verdict was Accepted and the
\* contestant's rank improved in the call's recalcRanks; it does not return
\* before its verdict event, and revealAll emits no event of any call.
StepEventOrder ==
    /\ [](\A k \in DOMAIN frames : frames[k].events \in EventPrefixes(frames[k].sub))
    /\ [][ /\ (PopStep /\ HandleKnown(Head(queue).handle))
                => /\ Len(frames') = Len(frames) + 1
                   /\ frames'[Len(frames')].sub = Head(queue)
                   /\ frames'[Len(frames')].events = << "pending" >>
           /\ \A k \in DOMAIN frames :
                 LET f == frames[k] IN
                 /\ ((StepRank(k) \/ StepFinish(k)) /\ Len(frames') < Len(frames))
                       => Len(f.events) >= 2
                 /\ ( /\ StepVerdict(k) \/ StepRank(k)
                      /\ Len(frames') = Len(frames)
                      /\ frames'[k].events = Append(f.events, "rank-change") )
                       => /\ f.sub.verdict = "OK"
                          /\ ~f.stale
                          /\ state'[f.ci].rank < state[f.ci].rank
           /\ RevealAll => frames' = frames
         ]_vars

\* C31 witness: a call has emitted pending, accepted and rank-change and has
\* not yet returned
RankChangeEmitted ==
    \E k \in DOMAIN frames :
        frames[k].events = << "pending", "accepted", "rank-change" >>

\* C32: whenever the phase is 'ended' or 'reveal' the contest timer is not
\* running (timerInterval is null), so no timer tick happens in these phases.
ClockStoppedOutsideContest ==
    /\ [](currentPhase \in {"ended", "reveal"} => ~timerInterval)
    /\ [][ (currentPhase \in {"ended", "reveal"}) => ~TimerTick ]_vars

\* C32 witness: a poll answer has ended the contest while the clock had time
\* left and had not ended it
EndedByPollBeforeClock ==
    /\ currentPhase = "ended"
    /\ contestDurationSec > 0
    /\ clockEvents.end = 0
    /\ Remaining(Session, now) > 0

\* C33: once auto-play is running and nothing cancels it, the reveal comes to
\* its end: the queue is empty, revealFinished is true and playing is false,
\* for every queue of Accepted, Rejected and unknown-handle submissions.
AutoPlayTerminates ==
    playing ~> (queue = << >> /\ revealFinished /\ ~playing)

\* C33 witness: auto-play is running, has just skipped a submission of the
\* unknown handle, and has set the timer for the submissions that are left
AutoPlayPastUnknownHandle ==
    /\ playing
    /\ autoTimerPending
    /\ revealed >= 1
    /\ ~HandleKnown(data.blindHourSubmissions[revealed].handle)
    /\ queue # << >>
    /\ frames = << >>

\* C34: (as claimed) in every state of the Reveal phase revealed plus the
\* length of the queue is the number of blind-hour submissions of the loaded
\* data, and acceptedCount is at most revealed, also after a resetReveal
\* during a step.
SubmissionConservation ==
    (currentPhase = "reveal" /\ data.loaded) =>
        /\ revealed + Len(queue) = Len(data.blindHourSubmissions)
        /\ acceptedCount <= revealed

\* The reveal stands at the frozen baseline of the loaded snapshot
AtFrozenBaseline ==
    /\ DOMAIN state = DOMAIN data.contestants
    /\ \A i \in DOMAIN state :
          /\ state[i].rank = data.contestants[i].freezeRank
          /\ state[i].solved = data.contestants[i].freezeSolvedCount
          /\ state[i].penalty = data.contestants[i].freezePenalty
          /\ state[i].delta = 0
          /\ state[i].probs = data.contestants[i].problemResultsAtFreeze
    /\ queue = data.blindHourSubmissions
    /\ revealed = 0
    /\ acceptedCount = 0
    /\ rankChangeCount = 0
    /\ submissionCounts = NoCounts
    /\ mvp = NoMvp
    /\ mostPersistent = NoPersistent
    /\ lastMinuteHero = NoHero
    /\ ~revealFinished

\* A nextSubmission call that is suspended in a sleep resumes
SuspendedCallResumes ==
    \E k \in DOMAIN frames : StepVerdict(k) \/ StepRank(k) \/ StepFinish(k)

\* C35: (as claimed) resetReveal leaves the reveal at the frozen baseline,
\* whatever ran before, and the reveal stays there while no new command is
\* given, also when a step that was in flight at the reset resumes.
ResetRestoresBaseline ==
    [][ /\ (ResetReveal /\ data.loaded) => AtFrozenBaseline'
        /\ (AtFrozenBaseline /\ SuspendedCallResumes) => AtFrozenBaseline'
      ]_vars

====
